---- MODULE Spec2Model ----
(***************************************************************************)
(* Model of lotto_analyzer.py: the frequency scan (analyze_patterns), the  *)
(* pair-decomposition scan (analyze_splits) and the ranking done by the    *)
(* main flow (Counter.most_common).  Row indices i are 0-based as in the   *)
(* code; row i of the data frame is df[i + 1] here.                        *)
(***************************************************************************)
EXTENDS Integers, Sequences, FiniteSets

VARIABLES
    game_type,        \* the selected game (line 19)
    df,               \* the cleaned history, earliest row first
    bonus_col,        \* whether df has a 'Bonus' column
    current_numbers,  \* the user's draw (line 142)
    pc,               \* where the run is
    caller,           \* who called analyze_splits: the main flow or a direct caller
    i,                \* loop index of the running scan
    predictions,      \* Counter of analyze_patterns
    matches_found,    \* line 66
    top_targets,      \* the targets handed to analyze_splits
    split_stats,      \* target -> Counter of (a, b, relation)
    ranked,           \* raw_predictions.most_common(7), line 165
    shown,            \* target -> split_data[target].most_common(3), line 173
    pat_log,          \* per iteration of analyze_patterns: the branches taken
    spl_log           \* per iteration of analyze_splits: the branches taken

vars == <<game_type, df, bonus_col, current_numbers, pc, caller, i, predictions,
          matches_found, top_targets, split_stats, ranked, shown, pat_log, spl_log>>

UK49 == "UK 49s (6 + Bonus)"
SA5 == "SA Daily Lotto (5 Numbers)"

(* ------------------------------ bounds -------------------------------- *)
MaxRows == 3

(* ------------------------- program constants --------------------------- *)
match_threshold == 3
TopTargets == 7
TopSplits == 3

(* ------------------------------ inputs --------------------------------- *)
PrimaryCount(gt) == IF gt = SA5 THEN 5 ELSE 6

Window(s, n, desc) == [j \in 1..n |-> IF desc THEN s + n - j ELSE s + j - 1]

\* A draw: consecutive numbers from s, as drawn ascending or descending; the
\* number after the primaries is the bonus ball.
DrawRow(gt, s, desc) ==
    LET w == Window(s, PrimaryCount(gt) + 1, desc)
    IN  [N |-> SubSeq(w, 1, PrimaryCount(gt)), Bonus |-> w[PrimaryCount(gt) + 1]]

\* The draws a history is made of: <<first number, drawn descending>>.
DrawShapes == { <<1, FALSE>>, <<1, TRUE>>, <<2, TRUE>> }

Rows(gt) == {DrawRow(gt, sh[1], sh[2]) : sh \in DrawShapes}

Histories(gt) == UNION {[1..n -> Rows(gt)] : n \in 0..MaxRows}

CurrentDraws ==
    { <<1, 2, 2>>,
      <<2, 3, 4>>,
      <<2, 3, 4, 5, 9>>,
      <<13, 12, 11, 10, 9, 2>>,
      <<14, 13, 12, 11, 10, 9, 2>>,
      <<3, 4, 5, 6, 7, 8, 2>>,
      <<15, 14, 13, 12, 11, 10, 9, 2>> }

\* Target lists of a direct call of analyze_splits.
GivenTargets == { <<3, 3>>, <<1, 3>> }

(* ------------------------ library: list, Counter ----------------------- *)
Range(s) == {s[k] : k \in 1..Len(s)}

Abs(x) == IF x < 0 THEN -x ELSE x

RECURSIVE InsertAsc(_, _)
InsertAsc(x, s) ==
    IF s = <<>> THEN <<x>>
    ELSE IF x < Head(s) THEN <<x>> \o s
    ELSE <<Head(s)>> \o InsertAsc(x, Tail(s))

RECURSIVE sorted(_)
sorted(s) == IF s = <<>> THEN <<>> ELSE InsertAsc(s[Len(s)], sorted(SubSeq(s, 1, Len(s) - 1)))

\* itertools.combinations(l, 2): index pairs p < q in lexicographic order.
RECURSIVE combinations2(_)
combinations2(l) ==
    IF Len(l) < 2 THEN <<>>
    ELSE [j \in 1..(Len(l) - 1) |-> <<l[1], l[j + 1]>>] \o combinations2(Tail(l))

\* A Counter is the sequence of its <<key, count>> items in insertion order.
CounterKeys(c) == {c[k][1] : k \in 1..Len(c)}

CounterGet(c, key) ==
    IF key \in CounterKeys(c)
    THEN LET k == CHOOSE k \in 1..Len(c) : c[k][1] = key IN c[k][2]
    ELSE 0

\* c[key] += 1
CounterInc(c, key) ==
    IF key \in CounterKeys(c)
    THEN [k \in 1..Len(c) |-> IF c[k][1] = key THEN <<key, c[k][2] + 1>> ELSE c[k]]
    ELSE Append(c, <<key, 1>>)

\* Counter.update(iterable)
RECURSIVE CounterUpdate(_, _)
CounterUpdate(c, l) ==
    IF l = <<>> THEN c ELSE CounterUpdate(CounterInc(c, Head(l)), Tail(l))

\* sum(c.values())
RECURSIVE CounterTotal(_)
CounterTotal(c) == IF c = <<>> THEN 0 ELSE Head(c)[2] + CounterTotal(Tail(c))

\* Place item x in a list ordered by count descending, after the items that
\* count at least as much (the sort is stable).
RECURSIVE InsertDesc(_, _)
InsertDesc(x, s) ==
    IF s = <<>> THEN <<x>>
    ELSE IF x[2] > Head(s)[2] THEN <<x>> \o s
    ELSE <<Head(s)>> \o InsertDesc(x, Tail(s))

RECURSIVE SortDesc(_)
SortDesc(c) ==
    IF c = <<>> THEN <<>> ELSE InsertDesc(c[Len(c)], SortDesc(SubSeq(c, 1, Len(c) - 1)))

\* A plausible slip: the n items are taken in insertion order, unsorted.
most_common_unsorted(c, n) == SubSeq(c, 1, IF Len(c) < n THEN Len(c) ELSE n)

\* Counter.most_common(n)
most_common(c, n) ==
    LET s == SortDesc(c) IN SubSeq(s, 1, IF Len(s) < n THEN Len(s) ELSE n)

(* ----------------------------- helpers --------------------------------- *)
\* A plausible slip: the bonus ball is left out of the row's set.
get_row_numbers_no_bonus(row, gt) ==
    IF gt = SA5 THEN {row.N[k] : k \in 1..5} ELSE {row.N[k] : k \in 1..6}

get_row_numbers(row, gt) ==
    IF gt = SA5
    THEN {row.N[k] : k \in 1..5}
    ELSE LET nums == {row.N[k] : k \in 1..6}
         IN  IF bonus_col THEN nums \cup {row.Bonus} ELSE nums

\* A plausible slip: the successor's numbers are taken in file order.
get_next_numbers_list_unsorted(index, gt) ==
    IF index + 1 >= Len(df) THEN <<>>
    ELSE LET row == df[index + 2]
         IN  IF gt = SA5 THEN [k \in 1..5 |-> row.N[k]] ELSE [k \in 1..6 |-> row.N[k]]

get_next_numbers_list(index, gt) ==
    IF index + 1 >= Len(df) THEN <<>>
    ELSE LET row == df[index + 2]
         IN  IF gt = SA5
             THEN sorted([k \in 1..5 |-> row.N[k]])
             ELSE sorted([k \in 1..6 |-> row.N[k]])

\* A plausible slip: range(len(df)).
ScanEndAll(n) == n

\* range(len(df) - 1): the loop runs while i < ScanEnd(len(df)).
ScanEnd(n) == n - 1

\* A plausible slip: the threshold is off by one.
IntersectionMatchLoose(current_set, row_set) ==
    Cardinality(current_set \cap row_set) >= match_threshold - 1

\* len(current_set.intersection(row_set)) >= match_threshold
IntersectionMatch(current_set, row_set) ==
    Cardinality(current_set \cap row_set) >= match_threshold

\* A plausible slip: the game type is not asked.
BonusMatchAnyGame(row) ==
    /\ Len(current_numbers) > 6
    /\ bonus_col
    /\ row.Bonus = current_numbers[Len(current_numbers)]

\* game_type == "UK 49s (6 + Bonus)" and len(current_numbers) > 6, and then
\* 'Bonus' in df.columns and row['Bonus'] == current_numbers[-1]
BonusMatch(row) ==
    /\ game_type = UK49
    /\ Len(current_numbers) > 6
    /\ bonus_col
    /\ row.Bonus = current_numbers[Len(current_numbers)]

(* --------------------------- analyze_patterns -------------------------- *)
\* A plausible slip: the second update is forgotten.
BonusUpdateOnce(p, next) == CounterUpdate(p, next)

\* lines 84-85: the successor's numbers are added twice.
BonusUpdate(p, next) == CounterUpdate(CounterUpdate(p, next), next)

PatternsIter ==
    /\ pc = "analyze_patterns"
    /\ i < ScanEnd(Len(df))
    /\ LET row == df[i + 1]
           row_set == get_row_numbers(row, game_type)
           inter == IntersectionMatch(Range(current_numbers), row_set)
           bonus == BonusMatch(row)
           next == get_next_numbers_list(i, game_type)
           p1 == IF inter THEN CounterUpdate(predictions, next) ELSE predictions
           p2 == IF bonus THEN BonusUpdate(p1, next) ELSE p1
       IN  /\ predictions' = p2
           /\ matches_found' = IF inter THEN matches_found + 1 ELSE matches_found
           /\ pat_log' = Append(pat_log, [i |-> i, inter |-> inter, bonus |-> bonus,
                                          added |-> CounterTotal(p2) - CounterTotal(predictions)])
    /\ i' = i + 1
    /\ UNCHANGED <<game_type, df, bonus_col, current_numbers, pc, caller, top_targets,
                   split_stats, ranked, shown, spl_log>>

PatternsReturn ==
    /\ pc = "analyze_patterns"
    /\ ~(i < ScanEnd(Len(df)))
    /\ pc' = "main"
    /\ UNCHANGED <<game_type, df, bonus_col, current_numbers, caller, i, predictions,
                   matches_found, top_targets, split_stats, ranked, shown, pat_log, spl_log>>

(* ------------------------------ main flow ------------------------------ *)
\* line 148: nothing was predicted, a warning is shown.
NoPatterns ==
    /\ pc = "main"
    /\ predictions = <<>>
    /\ pc' = "done"
    /\ caller' = "flow"
    /\ UNCHANGED <<game_type, df, bonus_col, current_numbers, i, predictions,
                   matches_found, top_targets, split_stats, ranked, shown, pat_log, spl_log>>

EnterSplits(targets, who) ==
    /\ top_targets' = targets
    /\ split_stats' = [t \in Range(targets) |-> <<>>]
    /\ caller' = who
    /\ i' = 0
    /\ pc' = "analyze_splits"
    /\ UNCHANGED <<game_type, df, bonus_col, current_numbers, predictions,
                   matches_found, ranked, shown, pat_log, spl_log>>

\* lines 152-156: the top 7 numbers become the targets of analyze_splits.
SelectTargets ==
    /\ pc = "main"
    /\ predictions # <<>>
    /\ LET top == most_common(predictions, TopTargets)
       IN  EnterSplits([k \in 1..Len(top) |-> top[k][1]], "flow")

\* analyze_splits called with a target list of the caller's own.
DirectSplits ==
    /\ pc = "main"
    /\ \E targets \in GivenTargets : EnterSplits(targets, "direct")

(* ---------------------------- analyze_splits --------------------------- *)
\* A plausible slip: the difference test is an inequality.
DiffHoldsAtMost(a, b, t) == Abs(a - b) <= t

DiffHolds(a, b, t) == Abs(a - b) = t

SumHolds(a, b, t) == a + b = t

\* lines 113-119 for one target: every pair is tested for Diff, then for Sum.
RECURSIVE ScanPairs(_, _, _)
ScanPairs(c, t, pairs) ==
    IF pairs = <<>> THEN c
    ELSE LET a == Head(pairs)[1]
             b == Head(pairs)[2]
             c1 == IF DiffHolds(a, b, t) THEN CounterInc(c, <<a, b, "Diff">>) ELSE c
             c2 == IF SumHolds(a, b, t) THEN CounterInc(c1, <<a, b, "Sum">>) ELSE c1
         IN  ScanPairs(c2, t, Tail(pairs))

\* line 112: for t in top_targets.
RECURSIVE ScanTargets(_, _, _)
ScanTargets(stats, targets, pairs) ==
    IF targets = <<>> THEN stats
    ELSE LET t == Head(targets)
         IN  ScanTargets([stats EXCEPT ![t] = ScanPairs(stats[t], t, pairs)],
                         Tail(targets), pairs)

\* A plausible slip: the row is weighted as in analyze_patterns.
ProcessMatchWeighted(stats, inter, bonus, pairs) ==
    LET s1 == IF inter THEN ScanTargets(stats, top_targets, pairs) ELSE stats
    IN  IF bonus
        THEN ScanTargets(ScanTargets(s1, top_targets, pairs), top_targets, pairs)
        ELSE s1

\* lines 107-119: a matching row is scanned once.
ProcessMatch(stats, inter, bonus, pairs) ==
    IF inter \/ bonus THEN ScanTargets(stats, top_targets, pairs) ELSE stats

\* A plausible slip: the bonus rule is left out of the second scan.
SplitIsMatchNoBonus(inter, bonus) == inter

\* lines 102-105
SplitIsMatch(inter, bonus) == IF bonus THEN TRUE ELSE inter

SplitsIter ==
    /\ pc = "analyze_splits"
    /\ i < ScanEnd(Len(df))
    /\ LET row == df[i + 1]
           row_set == get_row_numbers(row, game_type)
           inter == IntersectionMatch(Range(current_numbers), row_set)
           bonus == BonusMatch(row)
           is_match == SplitIsMatch(inter, bonus)
           next_nums == get_next_numbers_list(i, game_type)
           next_pairs == combinations2(next_nums)
       IN  /\ split_stats' = IF is_match
                             THEN ProcessMatch(split_stats, inter, bonus, next_pairs)
                             ELSE split_stats
           /\ spl_log' = Append(spl_log, [i |-> i, inter |-> inter, bonus |-> bonus,
                                          is_match |-> is_match])
    /\ i' = i + 1
    /\ UNCHANGED <<game_type, df, bonus_col, current_numbers, pc, caller, predictions,
                   matches_found, top_targets, ranked, shown, pat_log>>

SplitsReturn ==
    /\ pc = "analyze_splits"
    /\ ~(i < ScanEnd(Len(df)))
    /\ pc' = IF caller = "flow" THEN "display" ELSE "done"
    /\ UNCHANGED <<game_type, df, bonus_col, current_numbers, caller, i, predictions,
                   matches_found, top_targets, split_stats, ranked, shown, pat_log, spl_log>>

\* lines 160-182: the ranked targets and each target's best splits are shown.
Display ==
    /\ pc = "display"
    /\ ranked' = most_common(predictions, TopTargets)
    /\ shown' = [t \in Range(top_targets) |-> most_common(split_stats[t], TopSplits)]
    /\ pc' = "done"
    /\ UNCHANGED <<game_type, df, bonus_col, current_numbers, caller, i, predictions,
                   matches_found, top_targets, split_stats, pat_log, spl_log>>

(* ---------------------------- specification ---------------------------- *)
Init ==
    /\ game_type \in {UK49, SA5}
    /\ bonus_col \in BOOLEAN
    /\ df \in Histories(game_type)
    /\ current_numbers \in CurrentDraws
    /\ pc = "analyze_patterns"
    /\ caller = "none"
    /\ i = 0
    /\ predictions = <<>>
    /\ matches_found = 0
    /\ top_targets = <<>>
    /\ split_stats = <<>>
    /\ ranked = <<>>
    /\ shown = <<>>
    /\ pat_log = <<>>
    /\ spl_log = <<>>

Next ==
    \/ PatternsIter
    \/ PatternsReturn
    \/ NoPatterns
    \/ SelectTargets
    \/ DirectSplits
    \/ SplitsIter
    \/ SplitsReturn
    \/ Display

Spec == Init /\ [][Next]_vars

(* ------------------- the rules as the specification states them -------- *)
\* The rows that have a successor: 0 .. len - 2.
HistoryRows == 0..(Len(df) - 2)

Numbers == UNION {Range(df[k].N) : k \in 1..Len(df)}

Primaries(r) == {df[r + 1].N[k] : k \in 1..PrimaryCount(game_type)}

\* The row's full number set: the primaries, and in the 6 + bonus game the bonus
\* ball the data set carries.
DrawSet(r) ==
    Primaries(r) \cup (IF game_type = UK49 /\ bonus_col THEN {df[r + 1].Bonus} ELSE {})

LastOfCurrent == current_numbers[Len(current_numbers)]

IntersectionRule(r) ==
    LET common == {v \in DrawSet(r) : \E k \in 1..Len(current_numbers) : current_numbers[k] = v}
    IN  \E x, y, z \in common : x # y /\ y # z /\ x # z

\* The bonus rule: 6 + bonus game, a current draw of 7 elements or more, and the
\* row's bonus ball equal to the last element.
BonusRule(r) ==
    /\ game_type = UK49
    /\ Len(current_numbers) >= 7
    /\ bonus_col
    /\ df[r + 1].Bonus = LastOfCurrent

Qualifies(r) == IntersectionRule(r) \/ BonusRule(r)

\* Occurrences of n among the primaries of the successor of row r.
Occurrences(n, r) ==
    Cardinality({k \in 1..PrimaryCount(game_type) : df[r + 2].N[k] = n})

RowWeight(r) ==
    (IF IntersectionRule(r) THEN 1 ELSE 0) + (IF BonusRule(r) THEN 2 ELSE 0)

\* Sum over the rows 0 .. r - 1 of occurrences of n x the row's weight w[row].
RECURSIVE WeightedSum(_, _, _)
WeightedSum(n, r, w) ==
    IF r <= 0 THEN 0
    ELSE WeightedSum(n, r - 1, w) + Occurrences(n, r - 1) * w[r - 1]

RelationHolds(a, b, rel, t) ==
    \/ rel = "Diff" /\ (a - b = t \/ b - a = t)
    \/ rel = "Sum" /\ a + b = t

Entries(t) == {split_stats[t][k] : k \in 1..Len(split_stats[t])}

PatternsScanned == pc # "analyze_patterns"

SplitsScanned == pc \in {"display", "done"} /\ caller \in {"flow", "direct"} /\ top_targets # <<>>

PatEntries == Range(pat_log)

SplEntries == Range(spl_log)

(* ------------------------------- claims -------------------------------- *)

\* C1: the weight of every number n is the sum, over the rows scanned so far, of
\* the occurrences of n in the successor's primaries times (1 if the intersection
\* rule holds) + (2 if the bonus rule holds); a number without weight has no entry.
C1_WeightIsSumOfRowWeights ==
    /\ LET w == [r \in HistoryRows |-> RowWeight(r)]
       IN  \A n \in Numbers \cup CounterKeys(predictions) :
               CounterGet(predictions, n) = WeightedSum(n, Len(pat_log), w)
    /\ \A k, l \in 1..Len(predictions) :
           /\ predictions[k][2] > 0
           /\ k # l => predictions[k][1] # predictions[l][1]
    /\ PatternsScanned => Len(pat_log) = Cardinality(HistoryRows)

C1_Witness ==
    /\ pc = "main"
    /\ \E r, q \in HistoryRows :
           /\ IntersectionRule(r) /\ BonusRule(r)
           /\ IntersectionRule(q) /\ ~BonusRule(q)
    /\ \E n \in Numbers : CounterGet(predictions, n) = 4

\* C2: in every state, every entry (a, b, relation) recorded under target t has a
\* positive count and its relation holds for t exactly.
C2_EntriesSatisfyRelation ==
    \A t \in DOMAIN split_stats : \A e \in Entries(t) :
        /\ e[2] > 0
        /\ e[1][3] \in {"Diff", "Sum"}
        /\ e[1][3] = "Diff" => Abs(e[1][1] - e[1][2]) = t
        /\ e[1][3] = "Sum" => e[1][1] + e[1][2] = t

C2_Witness ==
    /\ pc = "analyze_splits"
    /\ i > 0
    /\ \E t \in DOMAIN split_stats : \E e, f \in Entries(t) :
           e[1][3] = "Diff" /\ f[1][3] = "Sum"

C4_IntersectionRuleIsThreeCommon ==
    \A e \in PatEntries \cup SplEntries : e.inter <=> IntersectionRule(e.i)

C4_Witness ==
    /\ pc = "done"
    /\ \E e \in SplEntries :
           e.inter /\ Cardinality(Range(current_numbers) \cap Primaries(e.i)) = 2

\* C5: both scans evaluate exactly the rows 0 .. len - 2, in order, so the last
\* draw is never a history row and no successor is taken past the end; with fewer
\* than 2 rows both results are empty.
C5_ScanWindow ==
    /\ \A k \in 1..Len(pat_log) : pat_log[k].i = k - 1 /\ pat_log[k].i + 1 < Len(df)
    /\ \A k \in 1..Len(spl_log) : spl_log[k].i = k - 1 /\ spl_log[k].i + 1 < Len(df)
    /\ PatternsScanned => {e.i : e \in PatEntries} = HistoryRows
    /\ SplitsScanned => {e.i : e \in SplEntries} = HistoryRows
    /\ Len(df) < 2 =>
           /\ predictions = <<>>
           /\ \A t \in DOMAIN split_stats : split_stats[t] = <<>>

C5_Witness ==
    \/ /\ pc = "done" /\ caller = "direct" /\ Len(df) = 1
    \/ /\ pc = "done" /\ caller = "direct" /\ Len(df) = 0

\* C6: once both scans have run, analyze_splits treats row i as matching if and
\* only if analyze_patterns added weight for row i, that is if and only if the
\* intersection rule or the bonus rule holds for row i.
C6_SameMatchingDecision ==
    SplitsScanned =>
        /\ Len(spl_log) = Len(pat_log)
        /\ \A k \in 1..Len(spl_log) :
               /\ spl_log[k].is_match <=> pat_log[k].added > 0
               /\ spl_log[k].is_match <=> Qualifies(k - 1)

C6_Witness ==
    /\ SplitsScanned
    /\ \E k \in 1..Len(spl_log) :
           /\ spl_log[k].is_match /\ ~IntersectionRule(k - 1)
           /\ pat_log[k].added = 2 * PrimaryCount(game_type)
    /\ \E k \in 1..Len(spl_log) : ~spl_log[k].is_match

\* C7: when no row of 0 .. len - 2 satisfies either rule, analyze_patterns returns
\* an empty mapping and analyze_splits returns exactly the given targets, each
\* with an empty entry set.
C7_NoQualifyingRowsNoSignal ==
    (\A r \in HistoryRows : ~Qualifies(r)) =>
        /\ predictions = <<>>
        /\ pc \in {"analyze_splits", "display", "done"} /\ top_targets # <<>> =>
               /\ DOMAIN split_stats = Range(top_targets)
               /\ \A t \in DOMAIN split_stats : split_stats[t] = <<>>

C7_Witness ==
    /\ pc = "done"
    /\ caller = "direct"
    /\ Len(df) = 3
    /\ \A r \in HistoryRows : ~Qualifies(r)
    /\ \E r \in HistoryRows : Cardinality(Range(current_numbers) \cap DrawSet(r)) = 2

\* Ranking by count descending, ties by position in the Counter c.
KeyPos(c, key) == CHOOSE k \in 1..Len(c) : c[k][1] = key

RanksBefore(x, y, c) ==
    \/ x[2] > y[2]
    \/ x[2] = y[2] /\ KeyPos(c, x[1]) < KeyPos(c, y[1])

IsTopOf(r, c, n) ==
    /\ Len(r) = (IF Len(c) < n THEN Len(c) ELSE n)
    /\ Range(r) \subseteq Range(c)
    /\ \A k, l \in 1..Len(r) : k < l => RanksBefore(r[k], r[l], c)
    /\ \A x \in Range(c) \ Range(r) : \A y \in Range(r) : RanksBefore(y, x, c)

\* The first matching row whose successor holds every number of ns.
FirstRow(ns, q) == CHOOSE r \in q :
    /\ \A n \in ns : Occurrences(n, r) > 0
    /\ \A p \in q : (\A n \in ns : Occurrences(n, p) > 0) => r <= p

DiscoveredBefore(x, y, first) ==
    \/ first[<<x[1], x[2]>>] < first[<<y[1], y[2]>>]
    \/ /\ first[<<x[1], x[2]>>] = first[<<y[1], y[2]>>]
       /\ \/ x[1] < y[1]
          \/ x[1] = y[1] /\ x[2] < y[2]
          \/ x[1] = y[1] /\ x[2] = y[2] /\ x[3] = "Diff" /\ y[3] = "Sum"

PredictionsInFirstSeenOrder ==
    LET q == {r \in HistoryRows : Qualifies(r)}
        first == [n \in CounterKeys(predictions) |-> FirstRow({n}, q)]
    IN  \A k, l \in 1..Len(predictions) : k < l =>
            LET m == predictions[k][1]
                n == predictions[l][1]
            IN  first[m] < first[n] \/ (first[m] = first[n] /\ m < n)

EntriesInFirstSeenOrder ==
    LET q == {r \in HistoryRows : Qualifies(r)}
        pairs == UNION {{<<e[1][1], e[1][2]>> : e \in Entries(t)} : t \in DOMAIN split_stats}
        first == [ab \in pairs |-> FirstRow({ab[1], ab[2]}, q)]
    IN  \A t \in DOMAIN split_stats : \A k, l \in 1..Len(split_stats[t]) : k < l =>
            DiscoveredBefore(split_stats[t][k][1], split_stats[t][l][1], first)

TargetsAreTopOfPredictions ==
    LET item == [k \in 1..Len(top_targets) |->
                    <<top_targets[k], CounterGet(predictions, top_targets[k])>>]
    IN  /\ Len(top_targets) = (IF Len(predictions) < TopTargets
                               THEN Len(predictions) ELSE TopTargets)
        /\ IsTopOf(item, predictions, TopTargets)

\* C8: predictions and entries are kept in first-seen order, the targets are the
\* first 7 of the predictions by count descending with ties in that order, and
\* each target's shown splits are the first 3 of its entries likewise.
C8_RankedByCountThenFirstSeen ==
    /\ PatternsScanned => PredictionsInFirstSeenOrder
    /\ SplitsScanned => EntriesInFirstSeenOrder
    /\ caller = "flow" /\ pc \in {"analyze_splits", "display", "done"} =>
           TargetsAreTopOfPredictions
    /\ caller = "flow" /\ pc = "done" /\ predictions # <<>> =>
           /\ IsTopOf(ranked, predictions, TopTargets)
           /\ top_targets = [k \in 1..Len(ranked) |-> ranked[k][1]]
           /\ DOMAIN shown = Range(top_targets)
           /\ \A t \in DOMAIN shown : IsTopOf(shown[t], split_stats[t], TopSplits)

C8_Witness ==
    /\ caller = "flow"
    /\ pc = "done"
    /\ Len(predictions) > TopTargets
    /\ \E k, l \in 1..Len(ranked) : k < l /\ ranked[k][2] = ranked[l][2]
    /\ \E x \in Range(predictions) \ Range(ranked) : x[2] = ranked[Len(ranked)][2]
    /\ \E k \in 1..Len(ranked) : predictions[k] # ranked[k]
    /\ \E t \in DOMAIN shown :
           /\ Len(split_stats[t]) > TopSplits
           /\ \E k \in 1..Len(shown[t]) : shown[t][k] # split_stats[t][k]

\* The premises of the count: no target is given twice, no primary is repeated.
DistinctTargets ==
    \A k, l \in 1..Len(top_targets) : k # l => top_targets[k] # top_targets[l]

DistinctPrimaries ==
    \A r \in 1..Len(df) : Cardinality(Range(df[r].N)) = PrimaryCount(game_type)

\* Of the matching rows q, those whose successor holds a < b with the relation.
ExpectedCount(a, b, rel, t, q) ==
    IF a < b /\ RelationHolds(a, b, rel, t)
    THEN Cardinality({r \in q : Occurrences(a, r) > 0 /\ Occurrences(b, r) > 0})
    ELSE 0

\* C9: with distinct targets and distinct primaries, the final count of
\* (a, b, relation) under t is the number of matching rows of 0 .. len - 2 whose
\* successor holds a < b with the relation holding for t: a row matching by both
\* rules raises the count by 1.
C9_MatchingRowCountsOnce ==
    SplitsScanned /\ DistinctTargets /\ DistinctPrimaries =>
        LET q == {r \in HistoryRows : Qualifies(r)}
        IN  \A t \in Range(top_targets) : \A a, b \in Numbers : \A rel \in {"Diff", "Sum"} :
                CounterGet(split_stats[t], <<a, b, rel>>) = ExpectedCount(a, b, rel, t, q)

C9_Witness ==
    /\ SplitsScanned
    /\ DistinctTargets
    /\ \E r \in HistoryRows : IntersectionRule(r) /\ BonusRule(r)
    /\ \E t \in DOMAIN split_stats : \E e \in Entries(t) : e[2] = 2
    /\ \E t \in DOMAIN split_stats : \E e \in Entries(t) : e[2] = 1

AllPositive == \A n \in Numbers : n > 0

\* C10: with positive draw numbers every recorded entry has a <= b, and no pair is
\* recorded under both Sum and Diff for the same target.
C10_OrderedPairsDisjointRelations ==
    AllPositive =>
        \A t \in DOMAIN split_stats : \A e \in Entries(t) :
            /\ e[1][1] <= e[1][2]
            /\ \A f \in Entries(t) :
                   e[1][1] = f[1][1] /\ e[1][2] = f[1][2] => e[1][3] = f[1][3]

C10_Witness ==
    /\ pc = "done"
    /\ \E r \in 1..Len(df) : df[r].N[1] > df[r].N[2]
    /\ \E t \in DOMAIN split_stats : \E e, f \in Entries(t) :
           e[1][3] = "Sum" /\ f[1][3] = "Diff" /\ e[2] = 2

====
